---------------------------- MODULE Spec2Model ----------------------------
(***************************************************************************)
(* The in-memory Run Coordinator of arp_template_run_coordinator           *)
(* (coordinator.py): the two dictionaries _runs and _node_runs and the     *)
(* handlers start_run, get_run, cancel_run, create_node_runs,              *)
(* get_node_run, report_node_run_evaluation and complete_node_run.         *)
(*                                                                         *)
(* Every handler is an `async def` whose body holds no suspension point    *)
(* (cancel_run awaits get_run, a coroutine that itself never suspends), so *)
(* on the asyncio event loop each call runs from its first line to its     *)
(* return or raise as one step: one action per handler.                    *)
(*                                                                         *)
(* A handler is written twice: as an operator (start_run(self, body), ...) *)
(* that computes the call's whole outcome from the coordinator `self` it   *)
(* is called on - the error raised or the value returned, and the          *)
(* coordinator as the call leaves it - and as the action (StartRun, ...)   *)
(* that installs that outcome.                                             *)
(*                                                                         *)
(* The four outbound gateways (atomic_executor_client.py,                  *)
(* composite_executor_client.py, selection_client.py, pdp_client.py) are   *)
(* collaborators the coordinator never calls; a caller's gateway call      *)
(* hands the downstream function to a worker thread with                   *)
(* asyncio.to_thread and is resumed with what it returned or raised.       *)
(* InMemoryRunStore (tests/test_coordinator_smoke.py) is the keyed store   *)
(* of Runs and NodeRuns with its own two dictionaries.                     *)
(*                                                                         *)
(* A Python None is the empty tuple, a present optional value v is <<v>>.  *)
(***************************************************************************)
EXTENDS Integers, Sequences, FiniteSets, TLC

VARIABLES
    runs,        \* self._runs: run_id -> Run
    node_runs,   \* self._node_runs: node_run_id -> NodeRun
    uuid_count,  \* how many uuid.uuid4() values have been drawn so far
    clock,       \* the time utils.now() returns to the next call
    gateway_call,     \* a caller's gateway call: idle, pending or done
    store_runs,       \* InMemoryRunStore._runs: run_id -> Run
    store_node_runs,  \* InMemoryRunStore._node_runs: node_run_id -> NodeRun
    tasks             \* two handler calls made at once: idle, scheduled or done

vars == <<runs, node_runs, uuid_count, clock, gateway_call, store_runs, store_node_runs, tasks>>

-----------------------------------------------------------------------------
(* Bounds of the exploration. *)

\* Calls that stamp a time are explored up to this many; each one moves the
\* clock on, so a later stamp always differs from an earlier one.
MaxClock == 3

\* The longest node_runs list of a create_node_runs request.
MaxSpecs == 2

\* The stamps explored beside a gateway call.
GatewayHorizon == 2

-----------------------------------------------------------------------------
(* Values. *)

None == <<>>

Some(v) == <<v>>

\* Python truthiness of an optional string: None and "" are falsy.
Truthy(opt) == opt # None /\ opt[1] # ""

\* d[k] = v on a Python dict: adds the key, or overwrites it.
DictSet(d, k, v) == [x \in DOMAIN d \cup {k} |-> IF x = k THEN v ELSE d[x]]

\* d.get(k): the value, or None.
DictGet(d, k) == IF k \in DOMAIN d THEN Some(d[k]) ELSE None

EmptyDict == [x \in {} |-> None]

RunStates == {"running", "succeeded", "failed", "canceled"}

TerminalRunStates == {"succeeded", "failed", "canceled"}

NodeRunStates == {"queued", "running", "succeeded", "failed", "canceled"}

NodeRunTerminalStates == {"succeeded", "failed", "canceled"}

\* f"run_{uuid.uuid4().hex}" and f"node_run_{uuid.uuid4().hex}": the n-th
\* uuid drawn is a value never drawn before.
Uuid4Hex(n) == "u" \o ToString(n)

GeneratedRunId(n) == "run_" \o Uuid4Hex(n)

GeneratedNodeRunId(n) == "node_run_" \o Uuid4Hex(n)

-----------------------------------------------------------------------------
(* Requests the callers send. *)

\* run_id values a caller chooses itself.
CallerRunIds == {"run_1"}

MissingRunId == "missing_run"

MissingNodeRunId == "root_node_run"

TenantExtensions == [tenant |-> [name |-> "acme"]]

\* RunStartRequest bodies, without the run_id.
StartBodies ==
    { [root_node_type_ref |-> "composite.echo@0.1.0", input |-> "prompt_a",
       run_context |-> None, extensions |-> None],
      [root_node_type_ref |-> "composite.echo@0.1.0", input |-> "prompt_b",
       run_context |-> Some("ctx"), extensions |-> Some(TenantExtensions)] }

\* The run_id of a start_run request: absent, empty, a caller's own, or one
\* that is already stored.
StartRunIds ==
    {None, Some("")} \cup {Some(r) : r \in CallerRunIds \cup DOMAIN runs}

StartRequests ==
    { [run_id |-> rid, root_node_type_ref |-> b.root_node_type_ref,
       input |-> b.input, run_context |-> b.run_context,
       extensions |-> b.extensions] : rid \in StartRunIds, b \in StartBodies }

\* run_id values of the requests keyed by a run.
RunIdArgs == DOMAIN runs \cup {MissingRunId}

\* node_run_id values of the requests keyed by a NodeRun.
NodeRunIdArgs == DOMAIN node_runs \cup {MissingNodeRunId}

\* NodeRunCreateSpec values.
PingSpec ==
    [node_type_ref |-> "jarvis.core.echo@0.3.1", inputs |-> "ping",
     extensions |-> None]

PongSpec ==
    [node_type_ref |-> "atomic.echo@0.1.0", inputs |-> "pong",
     extensions |-> Some(TenantExtensions)]

\* The node_runs lists of the requests: the lists of up to MaxSpecs specs in
\* which each spec differs from the one before it, so that the order of a
\* list shows in the NodeRuns made from it.
SpecLists ==
    { [i \in 1..n |-> IF i % 2 = first THEN PingSpec ELSE PongSpec] :
        n \in 0..MaxSpecs, first \in {0, 1} }

CreateRequests ==
    { [run_id |-> r, parent_node_run_id |-> p, node_runs |-> s,
       extensions |-> None] :
        r \in RunIdArgs, p \in NodeRunIdArgs, s \in SpecLists }

Boom == [code |-> "boom", message |-> "failure"]

Timeout == [code |-> "timeout", message |-> "too slow"]

\* NodeRunCompleteRequest bodies.
CompleteBodies ==
    { [state |-> "succeeded", outputs |-> Some("out"),
       output_artifacts |-> Some("art"), error |-> None],
      [state |-> "failed", outputs |-> None,
       output_artifacts |-> None, error |-> Some(Boom)],
      [state |-> "canceled", outputs |-> None,
       output_artifacts |-> None, error |-> Some(Timeout)],
      [state |-> "failed", outputs |-> Some("partial"),
       output_artifacts |-> None, error |-> None] }

EvaluationResults == {"eval_pass"}

-----------------------------------------------------------------------------
(* The coordinator object and the outcome of a call on it. *)

\* The RunCoordinator instance the handlers are methods of.
Self ==
    [runs |-> runs, node_runs |-> node_runs,
     uuid_count |-> uuid_count, clock |-> clock]

\* utils.now(): the current time.
now(self) == self.clock

\* A call that returned `ret` and left the coordinator as `self`.
Returned(ret, self) ==
    [code |-> "ok", status_code |-> 200, ret |-> ret, self |-> self]

\* raise ArpServerError(code=..., status_code=...), the coordinator being
\* `self` at the raise statement.
ArpServerError(code, status_code, self) ==
    [code |-> code, status_code |-> status_code, ret |-> None, self |-> self]

Raised(o) == o.code # "ok"

\* The coordinator as the next call finds it. A call that wrote to a
\* dictionary took place at the time the clock showed, and the clock has
\* moved on when the next call arrives.
After(self, o) ==
    IF o.self.runs = self.runs /\ o.self.node_runs = self.node_runs
    THEN o.self
    ELSE [o.self EXCEPT !.clock = @ + 1]

\* The two callers whose handler calls are in progress at the same time.
Tasks == {"task_1", "task_2"}

\* A faulty dispatch: the downstream function is called where the gateway
\* call runs, on the event loop.
run_inline == "event_loop"

\* asyncio.to_thread(fn, request): the downstream function runs on a worker
\* thread of the default executor while the gateway call is suspended.
to_thread == "worker_thread"

\* The event loop is free to run a coroutine: no downstream function is
\* running on it.
LoopFree ==
    ~(gateway_call.phase = "pending" /\ gateway_call.thread = "event_loop")

\* A handler call runs on the event loop, from its first line to its end.
Install(o) ==
    /\ LoopFree
    /\ After(Self, o).clock <= MaxClock
    /\ runs' = After(Self, o).runs
    /\ node_runs' = After(Self, o).node_runs
    /\ uuid_count' = After(Self, o).uuid_count
    /\ clock' = After(Self, o).clock
    /\ UNCHANGED <<gateway_call, store_runs, store_node_runs, tasks>>

-----------------------------------------------------------------------------
(* start_run *)

\* NodeRun(...) as both handlers that build one call it: kind, started_at,
\* ended_at, outputs, output_artifacts, executor_binding, evaluation_result
\* and recovery_actions are passed as None.
NodeRun(node_run_id, run_id, parent_node_run_id, node_type_ref, state, created_at, inputs, extensions) ==
    [node_run_id |-> node_run_id,
     run_id |-> run_id,
     parent_node_run_id |-> parent_node_run_id,
     node_type_ref |-> node_type_ref,
     kind |-> None,
     state |-> state,
     created_at |-> created_at,
     started_at |-> None,
     ended_at |-> None,
     inputs |-> inputs,
     outputs |-> None,
     output_artifacts |-> None,
     executor_binding |-> None,
     evaluation_result |-> None,
     recovery_actions |-> None,
     extensions |-> extensions]

\* A faulty Run: it names itself where its root NodeRun belongs.
NewRunRootIsRunId(self, body, run_id, root_node_run_id) ==
    [run_id |-> run_id,
     state |-> "running",
     root_node_run_id |-> run_id,
     run_context |-> body.run_context,
     started_at |-> now(self),
     ended_at |-> None,
     extensions |-> body.extensions]

\* The Run start_run builds.
NewRun(self, body, run_id, root_node_run_id) ==
    [run_id |-> run_id,
     state |-> "running",
     root_node_run_id |-> root_node_run_id,
     run_context |-> body.run_context,
     started_at |-> now(self),
     ended_at |-> None,
     extensions |-> body.extensions]

\* A faulty root NodeRun: created in the Run's state instead of queued.
RootNodeRunInRunState(self, body, run_id, root_node_run_id) ==
    NodeRun(root_node_run_id, run_id, None, body.root_node_type_ref,
            "running", now(self), body.input, body.extensions)

\* The root NodeRun start_run builds.
RootNodeRun(self, body, run_id, root_node_run_id) ==
    NodeRun(root_node_run_id, run_id, None, body.root_node_type_ref,
            "queued", now(self), body.input, body.extensions)

\* A faulty check: an existing run_id is not noticed.
RunExistsNever(self, run_id) == FALSE

\* run_id in self._runs, the check start_run makes
RunExists(self, run_id) == run_id \in DOMAIN self.runs

start_run(self, body) ==
    LET generated == ~Truthy(body.run_id)
        run_id == IF generated THEN GeneratedRunId(self.uuid_count + 1)
                  ELSE body.run_id[1]
        drawn == IF generated THEN 1 ELSE 0
        root_node_run_id == GeneratedNodeRunId(self.uuid_count + drawn + 1)
        run == NewRun(self, body, run_id, root_node_run_id)
        root_node_run == RootNodeRun(self, body, run_id, root_node_run_id)
    IN  IF RunExists(self, run_id)
        THEN ArpServerError("run_already_exists", 409,
                            [self EXCEPT !.uuid_count = @ + drawn])
        ELSE Returned(run,
                      [self EXCEPT
                          !.runs = DictSet(@, run_id, run),
                          !.node_runs = DictSet(@, root_node_run_id, root_node_run),
                          !.uuid_count = @ + drawn + 1])

StartRun == \E body \in StartRequests : Install(start_run(Self, body))

-----------------------------------------------------------------------------
(* get_run, cancel_run *)

\* A faulty handler: a Run that has ended is no longer found.
get_run_running_only(self, run_id) ==
    LET run == DictGet(self.runs, run_id)
    IN  IF run = None \/ run[1].state # "running"
        THEN ArpServerError("run_not_found", 404, self)
        ELSE Returned(run[1], self)

get_run(self, run_id) ==
    LET run == DictGet(self.runs, run_id)
    IN  IF run = None
        THEN ArpServerError("run_not_found", 404, self)
        ELSE Returned(run[1], self)

GetRun == \E run_id \in RunIdArgs : Install(get_run(Self, run_id))

\* A faulty handler: a Run that is already terminal is canceled again.
cancel_run_unguarded(self, run_id) ==
    LET got == get_run(self, run_id)
        run == got.ret
        updated == [run EXCEPT !.state = "canceled", !.ended_at = Some(now(self))]
    IN  IF Raised(got) THEN got
        ELSE Returned(updated,
                      [self EXCEPT !.runs = DictSet(@, run.run_id, updated)])

cancel_run(self, run_id) ==
    LET got == get_run(self, run_id)
        run == got.ret
        updated == [run EXCEPT !.state = "canceled", !.ended_at = Some(now(self))]
    IN  IF Raised(got) THEN got
        ELSE IF run.state \in {"succeeded", "failed", "canceled"}
        THEN Returned(run, self)
        ELSE Returned(updated,
                      [self EXCEPT !.runs = DictSet(@, run.run_id, updated)])

CancelRun == \E run_id \in RunIdArgs : Install(cancel_run(Self, run_id))

-----------------------------------------------------------------------------
(* create_node_runs *)

\* A faulty pass: the id is generated once, before the loop, and every
\* NodeRun of the list is stored under it.
NewNodeRunUnderOneId(self, body, i) ==
    NodeRun(GeneratedNodeRunId(self.uuid_count - (i - 1) + 1), body.run_id,
            Some(body.parent_node_run_id), body.node_runs[i].node_type_ref,
            "queued", now(self), body.node_runs[i].inputs,
            body.node_runs[i].extensions)

\* One pass of the loop over request.body.node_runs: the NodeRun built from
\* the i-th spec, the coordinator being `self` at that pass.
NewNodeRun(self, body, i) ==
    NodeRun(GeneratedNodeRunId(self.uuid_count + 1), body.run_id,
            Some(body.parent_node_run_id), body.node_runs[i].node_type_ref,
            "queued", now(self), body.node_runs[i].inputs,
            body.node_runs[i].extensions)

\* The loop: the specs before the i-th are done, `created` is the list so
\* far.
RECURSIVE CreateLoop(_, _, _, _)
CreateLoop(self, body, i, created) ==
    IF i > Len(body.node_runs)
    THEN [self |-> self, created |-> created]
    ELSE LET node_run == NewNodeRun(self, body, i)
         IN  CreateLoop([self EXCEPT
                            !.node_runs = DictSet(@, node_run.node_run_id, node_run),
                            !.uuid_count = @ + 1],
                        body, i + 1, Append(created, node_run))

\* Faulty checks: the parent is looked up before the Run.
CreateChecksParentFirst(self, body) ==
    LET parent_node_run == DictGet(self.node_runs, body.parent_node_run_id)
    IN  IF parent_node_run = None
        THEN ArpServerError("parent_node_run_not_found", 404, self)
        ELSE IF body.run_id \notin DOMAIN self.runs
        THEN ArpServerError("run_not_found", 404, self)
        ELSE IF parent_node_run[1].run_id # body.run_id
        THEN ArpServerError("parent_node_run_mismatch", 409, self)
        ELSE Returned(None, self)

\* Faulty checks: the parent's run_id is not compared with the request's.
CreateChecksWithoutMismatch(self, body) ==
    LET parent_node_run == DictGet(self.node_runs, body.parent_node_run_id)
    IN  IF body.run_id \notin DOMAIN self.runs
        THEN ArpServerError("run_not_found", 404, self)
        ELSE IF parent_node_run = None
        THEN ArpServerError("parent_node_run_not_found", 404, self)
        ELSE Returned(None, self)

\* Faulty checks: a parent that is not stored is let through, as if the
\* NodeRuns were to be created without a parent.
CreateChecksParentOptional(self, body) ==
    LET parent_node_run == DictGet(self.node_runs, body.parent_node_run_id)
    IN  IF body.run_id \notin DOMAIN self.runs
        THEN ArpServerError("run_not_found", 404, self)
        ELSE IF parent_node_run = None
        THEN Returned(None, self)
        ELSE IF parent_node_run[1].run_id # body.run_id
        THEN ArpServerError("parent_node_run_mismatch", 409, self)
        ELSE Returned(None, self)

\* Faulty checks: NodeRuns are created only in a Run that is still running.
CreateChecksRunning(self, body) ==
    LET parent_node_run == DictGet(self.node_runs, body.parent_node_run_id)
    IN  IF body.run_id \notin DOMAIN self.runs
        THEN ArpServerError("run_not_found", 404, self)
        ELSE IF self.runs[body.run_id].state # "running"
        THEN ArpServerError("run_not_running", 409, self)
        ELSE IF parent_node_run = None
        THEN ArpServerError("parent_node_run_not_found", 404, self)
        ELSE IF parent_node_run[1].run_id # body.run_id
        THEN ArpServerError("parent_node_run_mismatch", 409, self)
        ELSE Returned(None, self)

\* The three checks create_node_runs makes before its loop: the error the
\* first failing one raises, or a plain return when all pass.
CreateChecks(self, body) ==
    LET parent_node_run == DictGet(self.node_runs, body.parent_node_run_id)
    IN  IF body.run_id \notin DOMAIN self.runs
        THEN ArpServerError("run_not_found", 404, self)
        ELSE IF parent_node_run = None
        THEN ArpServerError("parent_node_run_not_found", 404, self)
        ELSE IF parent_node_run[1].run_id # body.run_id
        THEN ArpServerError("parent_node_run_mismatch", 409, self)
        ELSE Returned(None, self)

\* A faulty handler: the NodeRuns are stored first and the request is
\* checked afterwards.
create_node_runs_then_check(self, body) ==
    LET done == CreateLoop(self, body, 1, <<>>)
        checked == CreateChecks(self, body)
    IN  IF Raised(checked)
        THEN ArpServerError(checked.code, checked.status_code, done.self)
        ELSE Returned([node_runs |-> done.created, extensions |-> body.extensions],
                      done.self)

create_node_runs(self, body) ==
    LET checked == CreateChecks(self, body)
        done == CreateLoop(self, body, 1, <<>>)
    IN  IF Raised(checked)
        THEN checked
        ELSE Returned([node_runs |-> done.created, extensions |-> body.extensions],
                      done.self)

CreateNodeRuns == \E body \in CreateRequests : Install(create_node_runs(Self, body))

-----------------------------------------------------------------------------
(* get_node_run, report_node_run_evaluation, complete_node_run *)

get_node_run(self, node_run_id) ==
    LET node_run == DictGet(self.node_runs, node_run_id)
    IN  IF node_run = None
        THEN ArpServerError("node_run_not_found", 404, self)
        ELSE Returned(node_run[1], self)

GetNodeRun ==
    \E node_run_id \in NodeRunIdArgs : Install(get_node_run(Self, node_run_id))

\* A faulty handler: the stored NodeRun is put back in the queue along with
\* the evaluation.
report_node_run_evaluation_requeue(self, node_run_id, evaluation_result) ==
    LET node_run == DictGet(self.node_runs, node_run_id)
    IN  IF node_run = None
        THEN ArpServerError("node_run_not_found", 404, self)
        ELSE Returned(None,
                      [self EXCEPT !.node_runs =
                          DictSet(@, node_run[1].node_run_id,
                                  [node_run[1] EXCEPT
                                      !.state = "queued",
                                      !.evaluation_result = Some(evaluation_result)])])

report_node_run_evaluation(self, node_run_id, evaluation_result) ==
    LET node_run == DictGet(self.node_runs, node_run_id)
    IN  IF node_run = None
        THEN ArpServerError("node_run_not_found", 404, self)
        ELSE Returned(None,
                      [self EXCEPT !.node_runs =
                          DictSet(@, node_run[1].node_run_id,
                                  [node_run[1] EXCEPT
                                      !.evaluation_result = Some(evaluation_result)])])

ReportNodeRunEvaluation ==
    \E node_run_id \in NodeRunIdArgs, evaluation_result \in EvaluationResults :
        Install(report_node_run_evaluation(Self, node_run_id, evaluation_result))

\* Extensions.model_dump() and Error.model_dump(): the fields as a dict.
ModelDump(model) == model[1]

\* Faulty extensions: the error replaces the NodeRun's extensions instead of
\* being merged into them.
UpdatedExtensionsReplaced(extensions, error) ==
    IF error # None
    THEN Some(DictSet(EmptyDict, "completion_error", ModelDump(error)))
    ELSE extensions

\* Faulty extensions: a completion without an error clears the error of an
\* earlier completion.
UpdatedExtensionsCleared(extensions, error) ==
    IF error # None
    THEN LET extensions_payload ==
                 IF extensions # None THEN ModelDump(extensions) ELSE EmptyDict
         IN  Some(DictSet(extensions_payload, "completion_error", ModelDump(error)))
    ELSE IF extensions # None
    THEN Some([k \in DOMAIN extensions[1] \ {"completion_error"} |-> extensions[1][k]])
    ELSE extensions

\* The extensions complete_node_run stores: the NodeRun's own, and when the
\* body carries an error, a new Extensions built from their dump with
\* completion_error set to the error's dump.
UpdatedExtensions(extensions, error) ==
    IF error # None
    THEN LET extensions_payload ==
                 IF extensions # None THEN ModelDump(extensions) ELSE EmptyDict
         IN  Some(DictSet(extensions_payload, "completion_error", ModelDump(error)))
    ELSE extensions

\* A faulty handler: a NodeRun that is already terminal is left as it is.
complete_node_run_once(self, node_run_id, body) ==
    LET node_run == DictGet(self.node_runs, node_run_id)
        updated == [node_run[1] EXCEPT
                       !.state = body.state,
                       !.outputs = body.outputs,
                       !.output_artifacts = body.output_artifacts,
                       !.ended_at = Some(now(self)),
                       !.extensions = UpdatedExtensions(node_run[1].extensions,
                                                        body.error)]
    IN  IF node_run = None
        THEN ArpServerError("node_run_not_found", 404, self)
        ELSE IF node_run[1].state \in {"succeeded", "failed", "canceled"}
        THEN Returned(None, self)
        ELSE Returned(None,
                      [self EXCEPT !.node_runs =
                          DictSet(@, node_run[1].node_run_id, updated)])

\* A faulty handler: the completed NodeRun is built anew and its inputs are
\* not carried over.
complete_node_run_without_inputs(self, node_run_id, body) ==
    LET node_run == DictGet(self.node_runs, node_run_id)
        updated == [node_run[1] EXCEPT
                       !.state = body.state,
                       !.inputs = "",
                       !.outputs = body.outputs,
                       !.output_artifacts = body.output_artifacts,
                       !.ended_at = Some(now(self)),
                       !.extensions = UpdatedExtensions(node_run[1].extensions,
                                                        body.error)]
    IN  IF node_run = None
        THEN ArpServerError("node_run_not_found", 404, self)
        ELSE Returned(None,
                      [self EXCEPT !.node_runs =
                          DictSet(@, node_run[1].node_run_id, updated)])

\* A faulty handler: completing the root NodeRun of a Run ends the Run in the
\* NodeRun's state.
complete_node_run_ends_run(self, node_run_id, body) ==
    LET node_run == DictGet(self.node_runs, node_run_id)
        updated == [node_run[1] EXCEPT
                       !.state = body.state,
                       !.outputs = body.outputs,
                       !.output_artifacts = body.output_artifacts,
                       !.ended_at = Some(now(self)),
                       !.extensions = UpdatedExtensions(node_run[1].extensions,
                                                        body.error)]
        run == self.runs[updated.run_id]
    IN  IF node_run = None
        THEN ArpServerError("node_run_not_found", 404, self)
        ELSE Returned(None,
                      [self EXCEPT
                          !.node_runs =
                              DictSet(@, node_run[1].node_run_id, updated),
                          !.runs =
                              IF run.root_node_run_id = updated.node_run_id
                              THEN DictSet(@, run.run_id,
                                           [run EXCEPT !.state = body.state,
                                                       !.ended_at = Some(now(self))])
                              ELSE @])

complete_node_run(self, node_run_id, body) ==
    LET node_run == DictGet(self.node_runs, node_run_id)
        updated == [node_run[1] EXCEPT
                       !.state = body.state,
                       !.outputs = body.outputs,
                       !.output_artifacts = body.output_artifacts,
                       !.ended_at = Some(now(self)),
                       !.extensions = UpdatedExtensions(node_run[1].extensions,
                                                        body.error)]
    IN  IF node_run = None
        THEN ArpServerError("node_run_not_found", 404, self)
        ELSE Returned(None,
                      [self EXCEPT !.node_runs =
                          DictSet(@, node_run[1].node_run_id, updated)])

CompleteNodeRun ==
    \E node_run_id \in NodeRunIdArgs, body \in CompleteBodies :
        Install(complete_node_run(Self, node_run_id, body))

-----------------------------------------------------------------------------
(* The outbound gateways. `self._call(fn, request)` is the one path of every *)
(* gateway method: what the downstream function `fn` does on its thread is   *)
(* the input, what the awaiting gateway call returns or raises the outcome.  *)

Gateways == {"atomic_executor", "composite_executor", "selection", "pdp"}

\* The gateway objects, each with the base_url it was built with.
AtomicExecutorGatewayClient == [base_url |-> "http://atomic-executor:8082"]

CompositeExecutorGatewayClient == [base_url |-> "http://composite-executor:8083"]

SelectionGatewayClient == [base_url |-> "http://selection:8085"]

PdpGatewayClient == [base_url |-> "http://pdp:8086"]

\* The methods of each gateway; every one of them is self._call(fn, request)
\* with the downstream client's function of the same name.
GatewayMethods(gateway) ==
    CASE gateway = "atomic_executor" ->
             {"execute_atomic_node_run", "cancel_atomic_node_run", "health", "version"}
      [] gateway = "composite_executor" ->
             {"begin_composite_node_run", "cancel_composite_node_run", "health", "version"}
      [] gateway = "selection" -> {"generate_candidate_set", "health", "version"}
      [] gateway = "pdp" -> {"decide_policy", "health", "version"}

\* arp_standard_client.errors.ArpApiError as the gateways read it.
ArpApiError(code, message, status_code, details) ==
    [type |-> "ArpApiError", code |-> code, message |-> message,
     status_code |-> status_code, details |-> details]

\* The structured errors a downstream client raises: with a status and
\* details, with a status only, and with neither.
ArpApiErrors ==
    { ArpApiError("node_type_not_found", "Unknown node type", Some(404),
                  Some([node_type_id |-> "atomic.echo"])),
      ArpApiError("overloaded", "Try again later", Some(503), None),
      ArpApiError("decode_error", "Malformed response", None, None) }

\* Any other exception, with the arguments it was built with.
OtherExceptions ==
    { [type |-> "ConnectionError", args |-> <<"connection refused">>],
      [type |-> "TimeoutError", args |-> <<>>] }

\* str(exc) of an exception built with no argument or with one.
str(exc) == IF Len(exc.args) = 0 THEN "" ELSE exc.args[1]

\* `exc.status_code or 502`: None and 0 are falsy.
StatusOr(status_code, default) ==
    IF status_code # None /\ status_code[1] # 0 THEN status_code[1] ELSE default

\* What the downstream function does once its thread has run it.
DownstreamReturned(value) == [kind |-> "returned", value |-> value]

DownstreamRaised(exc) == [kind |-> "raised", exc |-> exc]

\* How the awaiting self._call ends: with the value, or raising the
\* ArpServerError of arp_standard_server.
CallReturned(value) == [kind |-> "returned", value |-> value]

CallRaised(code, message, status_code, details) ==
    [kind |-> "ArpServerError", code |-> code, message |-> message,
     status_code |-> status_code, details |-> details]

AtomicExecutorGatewayClient_call(self, downstream) ==
    LET exc == downstream.exc
    IN  IF downstream.kind = "returned"
        THEN CallReturned(downstream.value)
        ELSE IF exc.type = "ArpApiError"
        THEN CallRaised(exc.code, exc.message,
                        StatusOr(exc.status_code, 502), exc.details)
        ELSE CallRaised("atomic_executor_unavailable",
                        "Atomic Executor request failed", 502,
                        Some([atomic_executor_url |-> self.base_url,
                              error |-> str(exc)]))

\* A faulty copy of the atomic gateway's _call: its error code and details
\* key were left as they were in the file it was copied from.
CompositeExecutorGatewayClient_call_copied(self, downstream) ==
    LET exc == downstream.exc
    IN  IF downstream.kind = "returned"
        THEN CallReturned(downstream.value)
        ELSE IF exc.type = "ArpApiError"
        THEN CallRaised(exc.code, exc.message,
                        StatusOr(exc.status_code, 502), exc.details)
        ELSE CallRaised("atomic_executor_unavailable",
                        "Composite Executor request failed", 502,
                        Some([atomic_executor_url |-> self.base_url,
                              error |-> str(exc)]))

CompositeExecutorGatewayClient_call(self, downstream) ==
    LET exc == downstream.exc
    IN  IF downstream.kind = "returned"
        THEN CallReturned(downstream.value)
        ELSE IF exc.type = "ArpApiError"
        THEN CallRaised(exc.code, exc.message,
                        StatusOr(exc.status_code, 502), exc.details)
        ELSE CallRaised("composite_executor_unavailable",
                        "Composite Executor request failed", 502,
                        Some([composite_executor_url |-> self.base_url,
                              error |-> str(exc)]))

SelectionGatewayClient_call(self, downstream) ==
    LET exc == downstream.exc
    IN  IF downstream.kind = "returned"
        THEN CallReturned(downstream.value)
        ELSE IF exc.type = "ArpApiError"
        THEN CallRaised(exc.code, exc.message,
                        StatusOr(exc.status_code, 502), exc.details)
        ELSE CallRaised("selection_service_unavailable",
                        "Selection Service request failed", 502,
                        Some([selection_service_url |-> self.base_url,
                              error |-> str(exc)]))

\* A faulty _call: every structured error is passed on as a bad gateway,
\* whatever status the downstream gave.
PdpGatewayClient_call_always_502(self, downstream) ==
    LET exc == downstream.exc
    IN  IF downstream.kind = "returned"
        THEN CallReturned(downstream.value)
        ELSE IF exc.type = "ArpApiError"
        THEN CallRaised(exc.code, exc.message, 502, exc.details)
        ELSE CallRaised("pdp_unavailable", "PDP request failed", 502,
                        Some([pdp_url |-> self.base_url, error |-> str(exc)]))

PdpGatewayClient_call(self, downstream) ==
    LET exc == downstream.exc
    IN  IF downstream.kind = "returned"
        THEN CallReturned(downstream.value)
        ELSE IF exc.type = "ArpApiError"
        THEN CallRaised(exc.code, exc.message,
                        StatusOr(exc.status_code, 502), exc.details)
        ELSE CallRaised("pdp_unavailable", "PDP request failed", 502,
                        Some([pdp_url |-> self.base_url, error |-> str(exc)]))

\* The gateway object of a name, and its _call.
GatewayClient(gateway) ==
    CASE gateway = "atomic_executor" -> AtomicExecutorGatewayClient
      [] gateway = "composite_executor" -> CompositeExecutorGatewayClient
      [] gateway = "selection" -> SelectionGatewayClient
      [] gateway = "pdp" -> PdpGatewayClient

GatewayCall(gateway, downstream) ==
    CASE gateway = "atomic_executor" ->
             AtomicExecutorGatewayClient_call(AtomicExecutorGatewayClient, downstream)
      [] gateway = "composite_executor" ->
             CompositeExecutorGatewayClient_call(CompositeExecutorGatewayClient, downstream)
      [] gateway = "selection" ->
             SelectionGatewayClient_call(SelectionGatewayClient, downstream)
      [] gateway = "pdp" ->
             PdpGatewayClient_call(PdpGatewayClient, downstream)

\* A caller calls a gateway method: _call runs up to its await, the
\* downstream function is handed over, and the call is suspended.
GatewayInvoke ==
    /\ gateway_call.phase = "idle"
    /\ LoopFree
    /\ \E gateway \in Gateways :
           \E method \in GatewayMethods(gateway) :
               gateway_call' = [phase |-> "pending", gateway |-> gateway,
                                thread |-> to_thread]
    /\ UNCHANGED <<runs, node_runs, uuid_count, clock, store_runs, store_node_runs, tasks>>

\* The downstream function has ended as `downstream`; the gateway call is
\* resumed with it and ends.
Resume(downstream) ==
    /\ gateway_call.phase = "pending"
    /\ gateway_call' = [phase |-> "done", gateway |-> gateway_call.gateway,
                        downstream |-> downstream,
                        outcome |-> GatewayCall(gateway_call.gateway, downstream)]
    /\ UNCHANGED <<runs, node_runs, uuid_count, clock, store_runs, store_node_runs, tasks>>

DownstreamReturns == Resume(DownstreamReturned("response"))

DownstreamRaisesArpApiError == \E exc \in ArpApiErrors : Resume(DownstreamRaised(exc))

DownstreamRaisesException == \E exc \in OtherExceptions : Resume(DownstreamRaised(exc))

\* The caller has the outcome of its gateway call and may make another.
GatewayCallOver ==
    /\ gateway_call.phase = "done"
    /\ gateway_call' = [phase |-> "idle"]
    /\ UNCHANGED <<runs, node_runs, uuid_count, clock, store_runs, store_node_runs, tasks>>

-----------------------------------------------------------------------------
(* InMemoryRunStore: every method runs without a suspension point. *)

StoreSelf == [runs |-> store_runs, node_runs |-> store_node_runs]

StoreRunIds == {"run_1", "run_2"}

StoreNodeRunIds == {"node_run_a", "node_run_b", "node_run_c"}

\* The Runs and NodeRuns the store's callers hand to it.
StoreRunArgs ==
    { [run_id |-> r, state |-> s, root_node_run_id |-> "node_run_a",
       run_context |-> None, started_at |-> 0, ended_at |-> None,
       extensions |-> None] : r \in StoreRunIds, s \in {"running", "canceled"} }

StoreNodeRunArgs ==
    { NodeRun(n, r, None, "atomic.echo@0.1.0", s, 0, "ping", None) :
        n \in StoreNodeRunIds, r \in StoreRunIds, s \in {"queued", "running"} }

\* The limit arguments of list_node_runs_for_run, the default among them.
Limits == {1, 2, 500}

InMemoryRunStore_create_run(self, run) ==
    IF run.run_id \in DOMAIN self.runs
    THEN ArpServerError("run_already_exists", 409, self)
    ELSE Returned(run, [self EXCEPT !.runs = DictSet(@, run.run_id, run)])

InMemoryRunStore_get_run(self, run_id) ==
    Returned(DictGet(self.runs, run_id), self)

InMemoryRunStore_update_run(self, run) ==
    IF run.run_id \notin DOMAIN self.runs
    THEN ArpServerError("run_not_found", 404, self)
    ELSE Returned(run, [self EXCEPT !.runs = DictSet(@, run.run_id, run)])

InMemoryRunStore_create_node_run(self, node_run) ==
    IF node_run.node_run_id \in DOMAIN self.node_runs
    THEN ArpServerError("node_run_already_exists", 409, self)
    ELSE Returned(node_run,
                  [self EXCEPT !.node_runs =
                      DictSet(@, node_run.node_run_id, node_run)])

InMemoryRunStore_get_node_run(self, node_run_id) ==
    Returned(DictGet(self.node_runs, node_run_id), self)

InMemoryRunStore_update_node_run(self, node_run) ==
    IF node_run.node_run_id \notin DOMAIN self.node_runs
    THEN ArpServerError("node_run_not_found", 404, self)
    ELSE Returned(node_run,
                  [self EXCEPT !.node_runs =
                      DictSet(@, node_run.node_run_id, node_run)])

\* The list the comprehension builds, as the set of its elements: the
\* NodeRuns of a dictionary have distinct node_run_ids, so the list holds as
\* many NodeRuns as the set. `_ = limit` reads the limit and drops it.
InMemoryRunStore_list_node_runs_for_run(self, run_id, limit) ==
    Returned({ self.node_runs[n] :
                 n \in { m \in DOMAIN self.node_runs :
                           self.node_runs[m].run_id = run_id } },
             self)

StoreInstall(o) ==
    /\ store_runs' = o.self.runs
    /\ store_node_runs' = o.self.node_runs
    /\ UNCHANGED <<runs, node_runs, uuid_count, clock, gateway_call, tasks>>

StoreCreateRun ==
    \E run \in StoreRunArgs : StoreInstall(InMemoryRunStore_create_run(StoreSelf, run))

StoreGetRun ==
    \E run_id \in StoreRunIds : StoreInstall(InMemoryRunStore_get_run(StoreSelf, run_id))

StoreUpdateRun ==
    \E run \in StoreRunArgs : StoreInstall(InMemoryRunStore_update_run(StoreSelf, run))

StoreCreateNodeRun ==
    \E node_run \in StoreNodeRunArgs :
        StoreInstall(InMemoryRunStore_create_node_run(StoreSelf, node_run))

StoreGetNodeRun ==
    \E node_run_id \in StoreNodeRunIds :
        StoreInstall(InMemoryRunStore_get_node_run(StoreSelf, node_run_id))

StoreUpdateNodeRun ==
    \E node_run \in StoreNodeRunArgs :
        StoreInstall(InMemoryRunStore_update_node_run(StoreSelf, node_run))

StoreListNodeRunsForRun ==
    \E run_id \in StoreRunIds, limit \in Limits :
        StoreInstall(InMemoryRunStore_list_node_runs_for_run(StoreSelf, run_id, limit))

-----------------------------------------------------------------------------
(* Two handler calls made at the same time, as by asyncio.gather: both      *)
(* coroutines are scheduled on the event loop, which runs them one at a     *)
(* time, each from where it stands to its next suspension point.            *)

\* The bodies of the completions made at the same time as another call.
ConcurrentCompleteBodies ==
    { body \in CompleteBodies :
        body.state = "succeeded" \/ (body.state = "failed" /\ body.error # None) }

\* start_run calls with a caller's own run_id or none.
StartCalls ==
    { [operation |-> "start_run", body |-> body] :
        body \in { b \in StartRequests :
                     b.run_id \in {None} \cup {Some(r) : r \in CallerRunIds} } }

\* The calls that update the NodeRun node_run_id.
NodeRunCalls(node_run_id) ==
    { [operation |-> "complete_node_run", node_run_id |-> node_run_id,
       body |-> body] : body \in ConcurrentCompleteBodies }
        \cup { [operation |-> "report_node_run_evaluation",
                node_run_id |-> node_run_id,
                evaluation_result |-> evaluation_result] :
                 evaluation_result \in EvaluationResults }

\* Two calls that meet on one entity: two start_run calls, or two updates of
\* one stored NodeRun.
ConcurrentPairs ==
    (StartCalls \X StartCalls)
        \cup UNION { NodeRunCalls(n) \X NodeRunCalls(n) : n \in DOMAIN node_runs }

\* The handler a call names, applied to its request.
Handle(self, request) ==
    CASE request.operation = "start_run" -> start_run(self, request.body)
      [] request.operation = "complete_node_run" ->
             complete_node_run(self, request.node_run_id, request.body)
      [] request.operation = "report_node_run_evaluation" ->
             report_node_run_evaluation(self, request.node_run_id,
                                        request.evaluation_result)

\* What a handler that read the coordinator as `seen` and computed `computed`
\* from it writes into the coordinator `self` of a later time: the dictionary
\* entries it assigned.
Written(current, seen, computed) ==
    [k \in DOMAIN current \cup DOMAIN computed |->
        IF k \in DOMAIN computed /\ DictGet(computed, k) # DictGet(seen, k)
        THEN computed[k]
        ELSE current[k]]

\* A faulty coroutine: the handler awaits between reading the dictionaries
\* and writing to them, so the event loop may run the other call in between
\* and the write is that of what was read before.
RunCoroutineWithAwait(self, task) ==
    IF task.pc = "scheduled"
    THEN [self |-> self,
          task |-> [task EXCEPT !.pc = "suspended"] @@ [seen |-> self]]
    ELSE LET o == Handle(task.seen, task.request)
             written == [self EXCEPT
                            !.runs = Written(self.runs, task.seen.runs, o.self.runs),
                            !.node_runs = Written(self.node_runs, task.seen.node_runs,
                                                  o.self.node_runs),
                            !.uuid_count = IF o.self.uuid_count > @
                                           THEN o.self.uuid_count ELSE @]
         IN  [self |-> IF o.self = task.seen THEN self
                       ELSE [written EXCEPT !.clock = @ + 1],
              task |-> [pc |-> "done", request |-> task.request,
                        called_at |-> task.called_at, code |-> o.code]]

\* The event loop runs the coroutine of a call from where it stands to its
\* next suspension point. No handler has one between its first line and its
\* return or raise (cancel_run awaits get_run, which never suspends): the
\* whole handler runs.
RunCoroutine(self, task) ==
    LET o == Handle(self, task.request)
    IN  [self |-> After(self, o),
         task |-> [pc |-> "done", request |-> task.request,
                   called_at |-> task.called_at, code |-> o.code]]

\* Two callers call at the same time.
Gather ==
    /\ \A t \in Tasks : tasks[t].pc = "idle"
    /\ \E pair \in ConcurrentPairs :
           tasks' = [t \in Tasks |->
                        [pc |-> "scheduled",
                         request |-> IF t = "task_1" THEN pair[1] ELSE pair[2],
                         called_at |-> clock]]
    /\ UNCHANGED <<runs, node_runs, uuid_count, clock, gateway_call, store_runs, store_node_runs>>

\* The event loop picks one of the calls that can run and runs it.
TaskRun(t) ==
    /\ tasks[t].pc \in {"scheduled", "suspended"}
    /\ LoopFree
    /\ LET ran == RunCoroutine(Self, tasks[t])
       IN  /\ ran.self.clock <= MaxClock
           /\ runs' = ran.self.runs
           /\ node_runs' = ran.self.node_runs
           /\ uuid_count' = ran.self.uuid_count
           /\ clock' = ran.self.clock
           /\ tasks' = [tasks EXCEPT ![t] = ran.task]
    /\ UNCHANGED <<gateway_call, store_runs, store_node_runs>>

\* Both callers have their outcomes.
Gathered ==
    /\ \A t \in Tasks : tasks[t].pc = "done"
    /\ tasks' = [t \in Tasks |-> [pc |-> "idle"]]
    /\ UNCHANGED <<runs, node_runs, uuid_count, clock, gateway_call, store_runs, store_node_runs>>

-----------------------------------------------------------------------------

Init ==
    /\ runs = EmptyDict
    /\ node_runs = EmptyDict
    /\ uuid_count = 0
    /\ clock = 0
    /\ gateway_call = [phase |-> "idle"]
    /\ store_runs = EmptyDict
    /\ store_node_runs = EmptyDict
    /\ tasks = [t \in Tasks |-> [pc |-> "idle"]]

Next ==
    \/ StartRun
    \/ GetRun
    \/ CancelRun
    \/ CreateNodeRuns
    \/ GetNodeRun
    \/ ReportNodeRunEvaluation
    \/ CompleteNodeRun

Spec == Init /\ [][Next]_vars

\* The coordinator beside a caller's gateway call. The coordinator is built
\* at a time from which GatewayHorizon stamps are explored.
GatewayInit ==
    /\ runs = EmptyDict
    /\ node_runs = EmptyDict
    /\ uuid_count = 0
    /\ clock = MaxClock - GatewayHorizon
    /\ gateway_call = [phase |-> "idle"]
    /\ store_runs = EmptyDict
    /\ store_node_runs = EmptyDict
    /\ tasks = [t \in Tasks |-> [pc |-> "idle"]]

GatewayNext ==
    \/ GatewayInvoke
    \/ DownstreamReturns
    \/ DownstreamRaisesArpApiError
    \/ DownstreamRaisesException
    \/ GatewayCallOver
    \/ StartRun
    \/ GetRun
    \/ CancelRun
    \/ CreateNodeRuns
    \/ GetNodeRun
    \/ ReportNodeRunEvaluation
    \/ CompleteNodeRun

GatewaySpec == GatewayInit /\ [][GatewayNext]_vars

\* The store on its own.
StoreNext ==
    \/ StoreCreateRun
    \/ StoreGetRun
    \/ StoreUpdateRun
    \/ StoreCreateNodeRun
    \/ StoreGetNodeRun
    \/ StoreUpdateNodeRun
    \/ StoreListNodeRunsForRun

StoreSpec == Init /\ [][StoreNext]_vars

\* The coordinator under pairs of calls made at the same time.
ConcurrentNext ==
    \/ Gather
    \/ \E t \in Tasks : TaskRun(t)
    \/ Gathered

ConcurrentSpec == Init /\ [][ConcurrentNext]_vars

-----------------------------------------------------------------------------
(* Properties. Each speaks of every call a caller can make in a reachable   *)
(* state: `LET o == handler(Self, request)` is the outcome of that call.    *)

\* The request's run_id is not stored yet: it is a caller's own and not a key
\* of _runs, or it is absent (None or empty) and start_run generates one.
FreshRunId(body) == ~Truthy(body.run_id) \/ body.run_id[1] \notin DOMAIN runs

\* C1: every start_run whose run_id is not yet in the store (or is absent
\* and therefore generated) succeeds and returns a Run with that run_id (a
\* newly generated one when it was absent), state running, ended_at null and
\* a root_node_run_id; get_node_run(root_node_run_id) right after it returns
\* a NodeRun with state queued, parent_node_run_id null, the Run's run_id and
\* inputs equal to the supplied input.
C1_StartRunFresh ==
    \A body \in StartRequests :
        LET o == start_run(Self, body)
            root == get_node_run(After(Self, o), o.ret.root_node_run_id)
        IN  FreshRunId(body) =>
                /\ ~Raised(o)
                /\ IF Truthy(body.run_id)
                   THEN o.ret.run_id = body.run_id[1]
                   ELSE o.ret.run_id \notin DOMAIN runs \cup CallerRunIds \cup {""}
                /\ o.ret.state = "running"
                /\ o.ret.ended_at = None
                /\ get_run(After(Self, o), o.ret.run_id).ret = o.ret
                /\ ~Raised(root)
                /\ root.ret.node_run_id = o.ret.root_node_run_id
                /\ root.ret.state = "queued"
                /\ root.ret.parent_node_run_id = None
                /\ root.ret.run_id = o.ret.run_id
                /\ root.ret.inputs = body.input

\* A Run started under the caller's run_id and a Run started under a generated
\* one are stored, each with its queued root NodeRun, and a further fresh
\* start_run is still possible.
C1_Witness ==
    /\ \E r \in DOMAIN runs \cap CallerRunIds :
           node_runs[runs[r].root_node_run_id].state = "queued"
    /\ \E r \in DOMAIN runs \ CallerRunIds :
           /\ node_runs[runs[r].root_node_run_id].state = "queued"
           /\ node_runs[runs[r].root_node_run_id].inputs = "prompt_b"
    /\ \E body \in StartRequests : FreshRunId(body) /\ ~Raised(start_run(Self, body))

\* C2: start_run with a run_id that is already in the store fails with
\* run_already_exists (409) whatever the state of the stored Run, and leaves
\* every stored Run and NodeRun as it was: no second root NodeRun is made.
C2_StartRunExisting ==
    \A body \in StartRequests :
        LET o == start_run(Self, body)
        IN  (Truthy(body.run_id) /\ body.run_id[1] \in DOMAIN runs) =>
                /\ o.code = "run_already_exists"
                /\ o.status_code = 409
                /\ o.self.runs = runs
                /\ o.self.node_runs = node_runs

\* start_run is refused for a stored Run that is canceled and for one that is
\* running, with a body that differs from the one the Run was started with.
C2_Witness ==
    /\ \E body \in StartRequests :
           /\ Truthy(body.run_id) /\ body.run_id[1] \in DOMAIN runs
           /\ runs[body.run_id[1]].state = "canceled"
           /\ runs[body.run_id[1]].extensions # body.extensions
           /\ start_run(Self, body).code = "run_already_exists"
    /\ \E body \in StartRequests :
           /\ Truthy(body.run_id) /\ body.run_id[1] \in DOMAIN runs
           /\ runs[body.run_id[1]].state = "running"
           /\ start_run(Self, body).code = "run_already_exists"

\* C3: create_node_runs with a run_id that is not in the store fails with
\* run_not_found whatever the parent_node_run_id is (existing, missing, or
\* of another run), and the NodeRun store is the same after the call.
C3_CreateNodeRunsRunNotFound ==
    \A body \in CreateRequests :
        LET o == create_node_runs(Self, body)
        IN  body.run_id \notin DOMAIN runs =>
                /\ o.code = "run_not_found"
                /\ o.status_code = 404
                /\ o.self.node_runs = node_runs
                /\ o.self.runs = runs

\* create_node_runs is refused for an unknown run_id with an existing parent
\* (which then belongs to another run), with a missing parent, and with a
\* non-empty list of specs.
C3_Witness ==
    /\ \E body \in CreateRequests :
           /\ body.run_id \notin DOMAIN runs
           /\ body.parent_node_run_id \in DOMAIN node_runs
           /\ Len(body.node_runs) = MaxSpecs
           /\ create_node_runs(Self, body).code = "run_not_found"
    /\ \E body \in CreateRequests :
           /\ body.run_id \notin DOMAIN runs
           /\ body.parent_node_run_id \notin DOMAIN node_runs
           /\ create_node_runs(Self, body).code = "run_not_found"

\* complete_node_run with an error on a stored NodeRun: the stored NodeRun
\* has the request's state, an ended_at, and extensions that hold the error
\* under completion_error and every earlier extension field, except those
\* named in `replaceable`, with its earlier value.
CompletionErrorMerged(replaceable) ==
    \A n \in DOMAIN node_runs, body \in CompleteBodies :
        LET o == complete_node_run(Self, n, body)
            before == node_runs[n].extensions
            stored == get_node_run(After(Self, o), n).ret
        IN  (body.state \in NodeRunTerminalStates /\ body.error # None) =>
                /\ ~Raised(o)
                /\ stored.state = body.state
                /\ stored.ended_at # None
                /\ stored.extensions # None
                /\ "completion_error" \in DOMAIN stored.extensions[1]
                /\ stored.extensions[1]["completion_error"].code = body.error[1].code
                /\ stored.extensions[1]["completion_error"].message = body.error[1].message
                /\ before # None =>
                       \A k \in DOMAIN before[1] \ replaceable :
                           /\ k \in DOMAIN stored.extensions[1]
                           /\ stored.extensions[1][k] = before[1][k]

\* C4 as stated: after complete_node_run with a terminal state s and an
\* error, the stored NodeRun has state s, a non-null ended_at and extensions
\* holding the error's code and message under completion_error, and every
\* extension field present before the call is still present with the same
\* value.
C4_EveryFieldKept == CompletionErrorMerged({})

\* C4, amended: ... and every extension field present before the call, other
\* than completion_error itself, is still present with the same value; an
\* earlier completion_error is replaced by the new error.
C4_OtherFieldsKept == CompletionErrorMerged({"completion_error"})

\* A NodeRun created with a tenant extension has been completed with an
\* error: its extensions hold both fields.
C4_Witness ==
    \E n \in DOMAIN node_runs :
        /\ node_runs[n].state \in {"failed", "canceled"}
        /\ node_runs[n].ended_at # None
        /\ node_runs[n].extensions # None
        /\ DOMAIN node_runs[n].extensions[1] = {"tenant", "completion_error"}

\* The coordinator with the Run run_id in a terminal state: cancel_run is
\* also called on Runs that are succeeded or failed, states that only a
\* fuller system's completion propagation brings about.
TerminalVariants(run_id) ==
    { [Self EXCEPT !.runs[run_id].state = s,
                   !.runs[run_id].ended_at = Some(runs[run_id].started_at)] :
        s \in TerminalRunStates }

\* C5: cancel_run on a Run that is succeeded, failed or canceled returns that
\* Run unchanged and does not modify the store, and so does every repetition
\* (the same Run with the same ended_at); on a running Run it stores and
\* returns the Run with state canceled and a non-null ended_at; on an unknown
\* run_id it fails with run_not_found.
C5_CancelRun ==
    \A run_id \in RunIdArgs :
        LET o == cancel_run(Self, run_id)
            second == cancel_run(After(Self, o), run_id)
            third == cancel_run(After(After(Self, o), second), run_id)
        IN  IF run_id \notin DOMAIN runs
            THEN /\ o.code = "run_not_found"
                 /\ o.status_code = 404
                 /\ o.self = Self
            ELSE /\ ~Raised(o)
                 /\ runs[run_id].state \in TerminalRunStates =>
                        o.ret = runs[run_id] /\ o.self = Self
                 /\ runs[run_id].state = "running" =>
                        /\ o.ret.state = "canceled"
                        /\ o.ret.ended_at # None
                        /\ o.ret = [runs[run_id] EXCEPT !.state = "canceled",
                                                        !.ended_at = o.ret.ended_at]
                        /\ o.self.runs = [runs EXCEPT ![run_id] = o.ret]
                        /\ o.self.node_runs = node_runs
                 /\ second.ret = o.ret /\ second.self = After(Self, o)
                 /\ third.ret = o.ret /\ third.self = After(Self, o)
                 /\ \A terminal \in TerminalVariants(run_id) :
                        LET t == cancel_run(terminal, run_id)
                        IN  /\ ~Raised(t)
                            /\ t.ret = terminal.runs[run_id]
                            /\ t.self = terminal

\* A Run was canceled at an earlier time than the clock shows now, beside a
\* Run that is still running.
C5_Witness ==
    /\ \E r \in DOMAIN runs :
           /\ runs[r].state = "canceled"
           /\ runs[r].ended_at # None
           /\ runs[r].ended_at[1] < clock
    /\ \E r \in DOMAIN runs : runs[r].state = "running"

\* C6: once a stored Run is succeeded, failed or canceled, no coordinator
\* operation changes its state or its ended_at.
C6_TerminalRunFrozen ==
    [][\A r \in DOMAIN runs :
          runs[r].state \in TerminalRunStates =>
              /\ r \in DOMAIN runs'
              /\ runs'[r].state = runs[r].state
              /\ runs'[r].ended_at = runs[r].ended_at]_vars

\* A Run is canceled and a NodeRun was created or completed after that.
C6_Witness ==
    \E r \in DOMAIN runs :
        /\ runs[r].state = "canceled"
        /\ \E n \in DOMAIN node_runs :
               \/ node_runs[n].created_at > runs[r].ended_at[1]
               \/ /\ node_runs[n].ended_at # None
                  /\ node_runs[n].ended_at[1] > runs[r].ended_at[1]

\* C7 as stated: once a stored NodeRun is succeeded, failed or canceled, no
\* coordinator operation changes its state.
C7_TerminalNodeRunFrozen ==
    [][\A n \in DOMAIN node_runs :
          node_runs[n].state \in NodeRunTerminalStates =>
              /\ n \in DOMAIN node_runs'
              /\ node_runs'[n].state = node_runs[n].state]_vars

\* C7, amended: once a stored NodeRun is succeeded, failed or canceled, it
\* stays stored in one of these three states (it never returns to queued or
\* running), and its state changes only by a complete_node_run on it, which
\* sets the terminal state of the request.
C7_TerminalNodeRunStaysTerminal ==
    [][\A n \in DOMAIN node_runs :
          node_runs[n].state \in NodeRunTerminalStates =>
              /\ n \in DOMAIN node_runs'
              /\ node_runs'[n].state \in NodeRunTerminalStates
              /\ node_runs'[n].state # node_runs[n].state =>
                     \E body \in CompleteBodies :
                         /\ node_runs' = complete_node_run(Self, n, body).self.node_runs
                         /\ node_runs'[n].state = body.state]_vars

\* A NodeRun that is succeeded carries the completion_error of an earlier
\* completion: it was completed a second time, in another terminal state.
C7_Witness ==
    \E n \in DOMAIN node_runs :
        /\ node_runs[n].state = "succeeded"
        /\ node_runs[n].extensions # None
        /\ "completion_error" \in DOMAIN node_runs[n].extensions[1]

\* C8: every stored NodeRun's run_id names a stored Run, and every stored
\* NodeRun with a parent_node_run_id has a stored parent whose run_id is its
\* own.
C8_NodeRunsBelong ==
    \A n \in DOMAIN node_runs :
        /\ node_runs[n].run_id \in DOMAIN runs
        /\ node_runs[n].parent_node_run_id # None =>
               /\ node_runs[n].parent_node_run_id[1] \in DOMAIN node_runs
               /\ node_runs[node_runs[n].parent_node_run_id[1]].run_id
                      = node_runs[n].run_id

\* Two Runs are stored and a child NodeRun has been created in one of them.
C8_Witness ==
    /\ Cardinality(DOMAIN runs) >= 2
    /\ \E n \in DOMAIN node_runs : node_runs[n].parent_node_run_id # None

\* C9: a successful create_node_runs with N specs adds exactly N NodeRuns and
\* overwrites none; the returned list has length N, and its i-th element has
\* a new id unlike every other stored id, state queued, the request's run_id
\* and parent_node_run_id, the i-th spec's inputs, and null outputs,
\* output_artifacts, evaluation_result and ended_at.
C9_CreateNodeRunsAdds ==
    \A body \in CreateRequests :
        LET o == create_node_runs(Self, body)
            N == Len(body.node_runs)
            created == o.ret.node_runs
            stored == o.self.node_runs
        IN  ~Raised(o) =>
                /\ Cardinality(DOMAIN stored) = Cardinality(DOMAIN node_runs) + N
                /\ \A n \in DOMAIN node_runs :
                       n \in DOMAIN stored /\ stored[n] = node_runs[n]
                /\ Len(created) = N
                /\ \A i \in 1..N :
                       /\ created[i].node_run_id \notin DOMAIN node_runs
                       /\ \A j \in 1..N :
                              created[j].node_run_id = created[i].node_run_id => j = i
                       /\ created[i].node_run_id \in DOMAIN stored
                       /\ stored[created[i].node_run_id] = created[i]
                       /\ created[i].state = "queued"
                       /\ created[i].run_id = body.run_id
                       /\ created[i].parent_node_run_id = Some(body.parent_node_run_id)
                       /\ created[i].inputs = body.node_runs[i].inputs
                       /\ created[i].outputs = None
                       /\ created[i].output_artifacts = None
                       /\ created[i].evaluation_result = None
                       /\ created[i].ended_at = None

\* Two NodeRuns made by one create_node_runs call are stored: same parent,
\* same creation time, the inputs of the first and of the second spec.
C9_Witness ==
    \E n, m \in DOMAIN node_runs :
        /\ node_runs[n].parent_node_run_id # None
        /\ node_runs[m].parent_node_run_id = node_runs[n].parent_node_run_id
        /\ node_runs[m].created_at = node_runs[n].created_at
        /\ node_runs[n].inputs = "ping"
        /\ node_runs[m].inputs = "pong"
        /\ node_runs[n].state = "queued"

\* C10: create_node_runs has no partial success: either it succeeds and all
\* NodeRuns of the list are in the store afterwards, or it fails with an
\* error and the NodeRun store is unchanged.
C10_CreateNodeRunsAllOrNothing ==
    \A body \in CreateRequests :
        LET o == create_node_runs(Self, body)
        IN  IF Raised(o)
            THEN o.self.node_runs = node_runs
            ELSE /\ Len(o.ret.node_runs) = Len(body.node_runs)
                 /\ Cardinality(DOMAIN o.self.node_runs \ DOMAIN node_runs)
                        = Len(body.node_runs)
                 /\ \A i \in 1..Len(body.node_runs) :
                        /\ o.ret.node_runs[i].node_run_id \in DOMAIN o.self.node_runs
                        /\ o.ret.node_runs[i].inputs = body.node_runs[i].inputs

\* With two Runs stored, a request naming one Run and the other's root fails
\* on its third check with a list of specs in hand, and a list of two has
\* been created whole in another call.
C10_Witness ==
    /\ \E body \in CreateRequests :
           /\ Len(body.node_runs) = MaxSpecs
           /\ create_node_runs(Self, body).code = "parent_node_run_mismatch"
    /\ \E n, m \in DOMAIN node_runs :
           /\ n # m
           /\ node_runs[n].parent_node_run_id # None
           /\ node_runs[m].parent_node_run_id = node_runs[n].parent_node_run_id
           /\ node_runs[m].created_at = node_runs[n].created_at

\* C11: create_node_runs with an existing run_id and a parent_node_run_id
\* that is not in the NodeRun store fails with parent_node_run_not_found
\* (404) and creates no NodeRun.
C11_ParentNotFound ==
    \A body \in CreateRequests :
        LET o == create_node_runs(Self, body)
        IN  (body.run_id \in DOMAIN runs
                /\ body.parent_node_run_id \notin DOMAIN node_runs) =>
                /\ o.code = "parent_node_run_not_found"
                /\ o.status_code = 404
                /\ o.self.node_runs = node_runs
                /\ o.self = Self

\* A Run with child NodeRuns is stored, and a request for it that names a
\* parent that is not stored, with a full list of specs, is refused.
C11_Witness ==
    \E body \in CreateRequests :
        /\ body.run_id \in DOMAIN runs
        /\ body.parent_node_run_id \notin DOMAIN node_runs
        /\ Len(body.node_runs) = MaxSpecs
        /\ \E n \in DOMAIN node_runs :
               /\ node_runs[n].run_id = body.run_id
               /\ node_runs[n].parent_node_run_id # None
        /\ create_node_runs(Self, body).code = "parent_node_run_not_found"

\* C12: create_node_runs with an existing run_id and an existing parent
\* NodeRun whose run_id differs from the requested one fails with
\* parent_node_run_mismatch (409) and creates no NodeRun.
C12_ParentMismatch ==
    \A body \in CreateRequests :
        LET o == create_node_runs(Self, body)
        IN  (body.run_id \in DOMAIN runs
                /\ body.parent_node_run_id \in DOMAIN node_runs
                /\ node_runs[body.parent_node_run_id].run_id # body.run_id) =>
                /\ o.code = "parent_node_run_mismatch"
                /\ o.status_code = 409
                /\ o.self.node_runs = node_runs
                /\ o.self = Self

\* Two Runs are stored, one of them with a child NodeRun, and a request for
\* the other Run under that child is refused.
C12_Witness ==
    \E body \in CreateRequests :
        /\ body.run_id \in DOMAIN runs
        /\ body.parent_node_run_id \in DOMAIN node_runs
        /\ node_runs[body.parent_node_run_id].parent_node_run_id # None
        /\ node_runs[body.parent_node_run_id].run_id # body.run_id
        /\ Len(body.node_runs) > 0
        /\ create_node_runs(Self, body).code = "parent_node_run_mismatch"

\* C13: report_node_run_evaluation on a stored NodeRun changes only that
\* NodeRun's evaluation_result: every other field of it, every other NodeRun
\* and every Run are as before; on an unknown node_run_id it fails with
\* node_run_not_found and changes nothing.
C13_ReportChangesOnlyEvaluation ==
    \A n \in NodeRunIdArgs, evaluation_result \in EvaluationResults :
        LET o == report_node_run_evaluation(Self, n, evaluation_result)
        IN  IF n \notin DOMAIN node_runs
            THEN /\ o.code = "node_run_not_found"
                 /\ o.status_code = 404
                 /\ o.self = Self
            ELSE /\ ~Raised(o)
                 /\ o.self.runs = runs
                 /\ DOMAIN o.self.node_runs = DOMAIN node_runs
                 /\ \A m \in DOMAIN node_runs \ {n} :
                        o.self.node_runs[m] = node_runs[m]
                 /\ o.self.node_runs[n].evaluation_result = Some(evaluation_result)
                 /\ o.self.node_runs[n] =
                        [node_runs[n] EXCEPT
                            !.evaluation_result = Some(evaluation_result)]

\* An evaluation has been reported on a NodeRun that was completed with
\* outputs and an error: they are still there, beside a NodeRun without an
\* evaluation.
C13_Witness ==
    /\ \E n \in DOMAIN node_runs :
           /\ node_runs[n].evaluation_result # None
           /\ node_runs[n].state \in NodeRunTerminalStates
           /\ node_runs[n].ended_at # None
    /\ \E n \in DOMAIN node_runs : node_runs[n].extensions # None

\* The run_id values a step can be about: the stored ones before and after
\* it, the callers' own, one that is never used, and the next generated one.
RunIdPool ==
    DOMAIN runs \cup CallerRunIds \cup {MissingRunId, ""}
        \cup {GeneratedRunId(uuid_count + 1)}

C19_OnlyCancelRunChangesRuns ==
    /\ [](\A r \in DOMAIN runs : runs[r].state \in {"running", "canceled"})
    /\ [][\A r \in DOMAIN runs :
            /\ r \in DOMAIN runs'
            /\ runs'[r] # runs[r] =>
                   /\ runs[r].state = "running"
                   /\ runs'[r] = [runs[r] EXCEPT !.state = "canceled",
                                                 !.ended_at = Some(clock)]
                   /\ ~Raised(cancel_run(Self, r))
                   /\ Self' = After(Self, cancel_run(Self, r))]_vars

\* A Run was canceled after its root NodeRun had been completed: it was
\* still running then, and a start_run under its run_id is refused.
C19_Witness ==
    \E r \in DOMAIN runs :
        LET root == node_runs[runs[r].root_node_run_id]
        IN  /\ runs[r].state = "canceled"
            /\ root.state \in NodeRunTerminalStates
            /\ root.ended_at # None
            /\ root.ended_at[1] < runs[r].ended_at[1]
            /\ \E body \in StartRequests :
                   /\ body.run_id = Some(r)
                   /\ Raised(start_run(Self, body))

\* C20: a Run and its root NodeRun are created together: in every reachable
\* state every stored Run's root_node_run_id names a stored NodeRun that has
\* the Run's run_id and no parent, a step that stores a Run stores its root
\* NodeRun with it, and the root_node_run_id of a stored Run never changes.
C20_RunHasItsRootNodeRun ==
    /\ [](\A r \in DOMAIN runs :
            LET root == runs[r].root_node_run_id
            IN  /\ root \in DOMAIN node_runs
                /\ node_runs[root].node_run_id = root
                /\ node_runs[root].run_id = r
                /\ node_runs[root].parent_node_run_id = None)
    /\ [][/\ \A r \in DOMAIN runs :
                /\ r \in DOMAIN runs'
                /\ runs'[r].root_node_run_id = runs[r].root_node_run_id
          /\ \A r \in DOMAIN runs' \ DOMAIN runs :
                runs'[r].root_node_run_id \in DOMAIN node_runs' \ DOMAIN node_runs]_vars

\* Two Runs are stored, each with its own root NodeRun, and one of the roots
\* has a child, which is not the root of any Run.
C20_Witness ==
    \E r1, r2 \in DOMAIN runs :
        /\ r1 # r2
        /\ runs[r1].root_node_run_id # runs[r2].root_node_run_id
        /\ \E n \in DOMAIN node_runs :
               /\ node_runs[n].parent_node_run_id = Some(runs[r1].root_node_run_id)
               /\ \A r \in DOMAIN runs : runs[r].root_node_run_id # n

\* C15: in every gateway, when the downstream operation raises a structured
\* API error, the gateway call fails with the uniform error carrying the
\* same code, message and details, and the downstream status when one was
\* supplied, 502 when none was.
C15_ApiErrorPassedOn ==
    (/\ gateway_call.phase = "done"
     /\ gateway_call.downstream.kind = "raised"
     /\ gateway_call.downstream.exc.type = "ArpApiError") =>
        LET exc == gateway_call.downstream.exc
            raised == gateway_call.outcome
        IN  /\ raised.kind = "ArpServerError"
            /\ raised.code = exc.code
            /\ raised.message = exc.message
            /\ raised.details = exc.details
            /\ raised.status_code =
                   IF exc.status_code # None THEN exc.status_code[1] ELSE 502

\* A PDP call has ended on a structured error that came with a status, its
\* own and not 502, and with details.
C15_Witness ==
    /\ gateway_call.phase = "done"
    /\ gateway_call.gateway = "pdp"
    /\ gateway_call.downstream.kind = "raised"
    /\ gateway_call.downstream.exc.type = "ArpApiError"
    /\ gateway_call.downstream.exc.details # None
    /\ gateway_call.outcome.status_code = 404

\* The '<service>_unavailable' code of each gateway.
UnavailableCode(gateway) ==
    CASE gateway = "atomic_executor" -> "atomic_executor_unavailable"
      [] gateway = "composite_executor" -> "composite_executor_unavailable"
      [] gateway = "selection" -> "selection_service_unavailable"
      [] gateway = "pdp" -> "pdp_unavailable"

\* C16: in every gateway, when the downstream operation fails with anything
\* other than a structured API error, the gateway call fails with the
\* uniform error whose code is the service's '<service>_unavailable', status
\* 502, a message that is the same for every such failure of the gateway,
\* and details holding the gateway's base address and the stringified
\* failure; and whatever the downstream raised, the gateway call ends in the
\* uniform error and in nothing else.
C16_OtherFailureUnavailable ==
    (gateway_call.phase = "done" /\ gateway_call.downstream.kind = "raised") =>
        LET exc == gateway_call.downstream.exc
            gateway == gateway_call.gateway
            raised == gateway_call.outcome
        IN  /\ raised.kind = "ArpServerError"
            /\ exc.type # "ArpApiError" =>
                   /\ raised.code = UnavailableCode(gateway)
                   /\ raised.status_code = 502
                   /\ \A other \in OtherExceptions :
                          GatewayCall(gateway, DownstreamRaised(other)).message =
                              raised.message
                   /\ raised.details # None
                   /\ raised.details[1].error =
                          (IF exc.args = <<>> THEN "" ELSE exc.args[1])
                   /\ \E key \in DOMAIN raised.details[1] \ {"error"} :
                          raised.details[1][key] = GatewayClient(gateway).base_url

\* A composite executor call has ended on a refused connection: its details
\* carry the text of the failure.
C16_Witness ==
    /\ gateway_call.phase = "done"
    /\ gateway_call.gateway = "composite_executor"
    /\ gateway_call.downstream.kind = "raised"
    /\ gateway_call.downstream.exc.type = "ConnectionError"
    /\ gateway_call.outcome.details[1].error = "connection refused"

\* C17: a gateway call whose downstream operation has not yet returned or
\* failed does not block the coordinator: in every state where such a call
\* is pending the event loop is free, and every coordinator operation can be
\* called and runs to its end (the operations that stamp a time as long as
\* the explored stamps last).
C17_PendingCallDoesNotBlock ==
    gateway_call.phase = "pending" =>
        /\ LoopFree
        /\ ENABLED GetRun
        /\ ENABLED GetNodeRun
        /\ clock < MaxClock =>
               /\ ENABLED StartRun
               /\ ENABLED CancelRun
               /\ ENABLED CreateNodeRuns
               /\ ENABLED ReportNodeRunEvaluation
               /\ ENABLED CompleteNodeRun

\* A gateway call is pending while a running Run and its root NodeRun are
\* stored: a cancel_run, a create_node_runs and a complete_node_run that
\* succeed can be made.
C17_Witness ==
    /\ gateway_call.phase = "pending"
    /\ clock < MaxClock
    /\ \E r \in DOMAIN runs :
           /\ runs[r].state = "running"
           /\ cancel_run(Self, r).self # Self
           /\ \E body \in CreateRequests :
                  /\ body.run_id = r
                  /\ ~Raised(create_node_runs(Self, body))
                  /\ create_node_runs(Self, body).self # Self
           /\ \E body \in CompleteBodies :
                  ~Raised(complete_node_run(Self, runs[r].root_node_run_id, body))

\* C18: list_node_runs_for_run(run_id, limit) of the store returns only
\* NodeRuns whose run_id is the given one, and never more than limit of
\* them, for every store content and every limit.
C18_ListBoundedByLimit ==
    \A run_id \in StoreRunIds, limit \in Limits :
        LET listed == InMemoryRunStore_list_node_runs_for_run(StoreSelf, run_id, limit).ret
        IN  /\ \A node_run \in listed : node_run.run_id = run_id
            /\ Cardinality(listed) <= limit

\* C21: complete_node_run is accepted on a NodeRun that is already terminal
\* and overwrites its terminal fields: no error is raised, and the stored
\* state, outputs and output_artifacts are those of the request (null where
\* the request has none) and ended_at is the time of this call.
C21_RecompletionOverwrites ==
    \A n \in DOMAIN node_runs, body \in CompleteBodies :
        LET o == complete_node_run(Self, n, body)
            stored == o.self.node_runs[n]
        IN  node_runs[n].state \in NodeRunTerminalStates =>
                /\ ~Raised(o)
                /\ o.ret = None
                /\ stored.state = body.state
                /\ stored.outputs = body.outputs
                /\ stored.output_artifacts = body.output_artifacts
                /\ stored.ended_at = Some(clock)
                /\ stored.ended_at # node_runs[n].ended_at

\* A NodeRun that was completed with an error has been completed again by a
\* request without one: it has that request's state and outputs, no
\* output_artifacts, and was stamped at the later time.
C21_Witness ==
    \E n \in DOMAIN node_runs :
        /\ node_runs[n].extensions # None
        /\ "completion_error" \in DOMAIN node_runs[n].extensions[1]
        /\ node_runs[n].state = "failed"
        /\ node_runs[n].outputs = Some("partial")
        /\ node_runs[n].output_artifacts = None
        /\ node_runs[n].ended_at[1] > node_runs[n].created_at + 1

\* C22: the node_run_id, run_id, parent_node_run_id, node_type_ref and inputs
\* of a stored NodeRun never change after its creation, and no NodeRun is
\* ever removed from the store.
C22_NodeRunIdentityKept ==
    [][\A n \in DOMAIN node_runs :
          /\ n \in DOMAIN node_runs'
          /\ node_runs'[n].node_run_id = node_runs[n].node_run_id
          /\ node_runs'[n].run_id = node_runs[n].run_id
          /\ node_runs'[n].parent_node_run_id = node_runs[n].parent_node_run_id
          /\ node_runs'[n].node_type_ref = node_runs[n].node_type_ref
          /\ node_runs'[n].inputs = node_runs[n].inputs]_vars

\* A child NodeRun has been completed, and has the parent and the inputs it
\* was created with.
C22_Witness ==
    \E n \in DOMAIN node_runs :
        /\ node_runs[n].parent_node_run_id # None
        /\ node_runs[n].state \in NodeRunTerminalStates
        /\ node_runs[n].inputs \in {"ping", "pong"}
        /\ node_runs[n].node_run_id = n

\* The NodeRun carries the error of a completion.
HasCompletionError(node_run) ==
    /\ node_run.extensions # None
    /\ "completion_error" \in DOMAIN node_run.extensions[1]

\* C25: once a NodeRun's extensions contain completion_error, no later
\* operation removes it: no step does, a complete_node_run without an error
\* leaves the extensions as they are, one with an error replaces only the
\* value of completion_error, and report_node_run_evaluation leaves the
\* extensions untouched.
C25_CompletionErrorStays ==
    /\ [](\A n \in DOMAIN node_runs :
            /\ \A body \in CompleteBodies :
                   LET stored == complete_node_run(Self, n, body).self.node_runs[n]
                   IN  /\ body.error = None =>
                              stored.extensions = node_runs[n].extensions
                       /\ (body.error # None /\ HasCompletionError(node_runs[n])) =>
                              /\ DOMAIN stored.extensions[1] =
                                     DOMAIN node_runs[n].extensions[1]
                              /\ \A k \in DOMAIN stored.extensions[1] \ {"completion_error"} :
                                     stored.extensions[1][k] = node_runs[n].extensions[1][k]
                              /\ stored.extensions[1]["completion_error"] = body.error[1]
            /\ \A evaluation_result \in EvaluationResults :
                   report_node_run_evaluation(Self, n, evaluation_result).self.node_runs[n].extensions
                       = node_runs[n].extensions)
    /\ [][\A n \in DOMAIN node_runs :
            HasCompletionError(node_runs[n]) =>
                /\ n \in DOMAIN node_runs'
                /\ HasCompletionError(node_runs'[n])]_vars

\* A NodeRun that is succeeded, with outputs, carries the completion_error of
\* the failed completion before.
C25_Witness ==
    \E n \in DOMAIN node_runs :
        /\ HasCompletionError(node_runs[n])
        /\ node_runs[n].extensions[1]["completion_error"] = Boom
        /\ node_runs[n].state = "succeeded"
        /\ node_runs[n].outputs = Some("out")

\* The coordinator with the state of the Run of a request, or of its parent
\* NodeRun, replaced by any other state.
StateVariants(body) ==
    (IF body.run_id \in DOMAIN runs
     THEN { [Self EXCEPT !.runs[body.run_id].state = s] :
              s \in RunStates \ {runs[body.run_id].state} }
     ELSE {})
        \cup (IF body.parent_node_run_id \in DOMAIN node_runs
              THEN { [Self EXCEPT !.node_runs[body.parent_node_run_id].state = s] :
                       s \in NodeRunStates \ {node_runs[body.parent_node_run_id].state} }
              ELSE {})

\* C26: the outcome of create_node_runs depends only on the existence of the
\* Run and of the parent NodeRun and on the parent's run_id, never on their
\* states: with any other state of the Run or of the parent, the same
\* request raises the same error or returns and adds the same queued
\* NodeRuns; and cancel_run changes no NodeRun, so that a step that cancels a
\* Run leaves every NodeRun as it was. The requests compared are those with
\* no spec or one: the specs are not looked at before the checks are over.
C26_CreateIgnoresStates ==
    /\ [](\A body \in { b \in CreateRequests : Len(b.node_runs) <= 1 } :
            LET o == create_node_runs(Self, body)
            IN  \A other \in StateVariants(body) :
                    LET p == create_node_runs(other, body)
                    IN  /\ p.code = o.code
                        /\ p.status_code = o.status_code
                        /\ p.ret = o.ret
                        /\ p.self.runs = other.runs
                        /\ DOMAIN p.self.node_runs = DOMAIN o.self.node_runs
                        /\ ~Raised(p) =>
                               \A i \in DOMAIN p.ret.node_runs :
                                   /\ p.ret.node_runs[i].state = "queued"
                                   /\ p.self.node_runs[p.ret.node_runs[i].node_run_id]
                                          = p.ret.node_runs[i])
    /\ [](\A run_id \in RunIdArgs : cancel_run(Self, run_id).self.node_runs = node_runs)
    /\ [][(\E r \in DOMAIN runs : runs'[r].state # runs[r].state) =>
             node_runs' = node_runs]_vars

\* A queued NodeRun was created in a Run after the Run was canceled.
C26_Witness ==
    \E n \in DOMAIN node_runs :
        /\ node_runs[n].state = "queued"
        /\ node_runs[n].parent_node_run_id # None
        /\ runs[node_runs[n].run_id].state = "canceled"
        /\ node_runs[n].created_at >= runs[node_runs[n].run_id].ended_at[1]

\* Both calls made at the same time have ended.
BothDone == \A t \in Tasks : tasks[t].pc = "done"

\* C23: for any interleaving of a complete_node_run and a
\* report_node_run_evaluation made at the same time on the same stored
\* NodeRun, neither update is lost: both calls succeed, and the NodeRun
\* stored at the end has the state, outputs and output_artifacts of the
\* completion, an ended_at stamped by it, and the evaluation_result of the
\* report.
C23_NeitherUpdateLost ==
    BothDone =>
        \A t, u \in Tasks :
            (/\ tasks[t].request.operation = "complete_node_run"
             /\ tasks[u].request.operation = "report_node_run_evaluation") =>
                LET body == tasks[t].request.body
                    stored == node_runs[tasks[t].request.node_run_id]
                IN  /\ tasks[t].request.node_run_id = tasks[u].request.node_run_id
                    /\ tasks[t].code = "ok"
                    /\ tasks[u].code = "ok"
                    /\ stored.state = body.state
                    /\ stored.outputs = body.outputs
                    /\ stored.output_artifacts = body.output_artifacts
                    /\ stored.ended_at # None
                    /\ stored.ended_at[1] >= tasks[t].called_at
                    /\ stored.evaluation_result =
                           Some(tasks[u].request.evaluation_result)
                    /\ body.error # None => HasCompletionError(stored)

\* A completion with an error and a report, made at the same time on a
\* NodeRun that was queued and not evaluated, have both ended.
C23_Witness ==
    /\ BothDone
    /\ \E t, u \in Tasks :
           /\ tasks[t].request.operation = "complete_node_run"
           /\ tasks[t].request.body.error # None
           /\ tasks[u].request.operation = "report_node_run_evaluation"
           /\ node_runs[tasks[t].request.node_run_id].state = "failed"
           /\ node_runs[tasks[t].request.node_run_id].ended_at = Some(tasks[t].called_at)
           /\ node_runs[tasks[u].request.node_run_id].evaluation_result # None

\* Both calls are start_run calls with the same run_id of the caller's own.
SameRunIdStarts ==
    /\ BothDone
    /\ \A t \in Tasks :
           /\ tasks[t].request.operation = "start_run"
           /\ Truthy(tasks[t].request.body.run_id)
    /\ tasks["task_1"].request.body.run_id = tasks["task_2"].request.body.run_id

\* The store holds one Run with the run_id and one NodeRun without a parent
\* for it, the one the Run names.
OneRunOneRoot(run_id) ==
    /\ run_id \in DOMAIN runs
    /\ runs[run_id].run_id = run_id
    /\ { n \in DOMAIN node_runs :
           node_runs[n].run_id = run_id /\ node_runs[n].parent_node_run_id = None }
           = {runs[run_id].root_node_run_id}

\* One of the two calls succeeded and the other failed with
\* run_already_exists.
ExactlyOneStarted ==
    \E t, u \in Tasks :
        /\ t # u
        /\ tasks[t].code = "ok"
        /\ tasks[u].code = "run_already_exists"

\* C24 as stated: for any interleaving of two start_run calls made at the
\* same time with the same caller-supplied run_id, exactly one succeeds and
\* the other fails with run_already_exists; afterwards the store holds
\* exactly one Run with that run_id and exactly one NodeRun with a null
\* parent for it, the one named by the Run's root_node_run_id.
C24_ExactlyOneSucceeds ==
    SameRunIdStarts =>
        /\ ExactlyOneStarted
        /\ OneRunOneRoot(tasks["task_1"].request.body.run_id[1])

\* C24, amended: ... with the same caller-supplied run_id that is not stored
\* when the calls are made, exactly one succeeds and the other fails with
\* run_already_exists; when the run_id is stored already (the Run was started
\* before the calls were made), both fail with run_already_exists. Either
\* way the store afterwards holds exactly one Run with that run_id and
\* exactly one NodeRun with a null parent for it, the Run's root.
C24_ExactlyOneSucceedsIfFresh ==
    SameRunIdStarts =>
        LET run_id == tasks["task_1"].request.body.run_id[1]
        IN  /\ OneRunOneRoot(run_id)
            /\ IF runs[run_id].started_at >= tasks["task_1"].called_at
               THEN ExactlyOneStarted
               ELSE \A t \in Tasks : tasks[t].code = "run_already_exists"

\* Two start_run calls with the same run_id and different inputs, made when
\* the run_id was not stored, have ended: one of them started the Run.
C24_Witness ==
    /\ SameRunIdStarts
    /\ ExactlyOneStarted
    /\ tasks["task_1"].request.body.input # tasks["task_2"].request.body.input
    /\ runs[tasks["task_1"].request.body.run_id[1]].started_at = tasks["task_1"].called_at

=============================================================================
